---- MODULE Spec2Model ----
(***************************************************************************)
(* ENRManager (ddht/enr_manager.py): the signed, versioned node record of  *)
(* the local node, its constructor (creation / reconciliation), the        *)
(* synchronous update, and the queued path (async_update -> zero-capacity  *)
(* trio memory channel -> run).                                            *)
(***************************************************************************)
EXTENDS Integers, Sequences, FiniteSets, TLC

\* ------------------------------------------------------------------ bounds
MaxPairs == 2        \* longest pair list handed to update / async_update
MaxQueued == 3       \* pairs handed to async_update over all producers
MaxSync == 1         \* synchronous update calls by the owner
MaxStoredSeq == 2    \* highest sequence number of a pre-existing stored record
MaxIdLen == 66       \* longest identifier body handed to ping_munger

\* ------------------------------------------------------------- value space
Keys == {"id", "ip", "secp256k1"}
KeyOrder == <<"id", "ip", "secp256k1">>
Absent == "absent"
PrivKeys == {"k1", "k2"}
PubKeys == {"pkA", "pkB"}
IpValues == {"ip1", "ip2"}
Producers == {"A", "B"}

\* private_key.public_key.to_compressed_bytes()
PublicKeyOf(k) == IF k = "k1" THEN "pkA" ELSE "pkB"

\* the identity scheme registry: the one default scheme
Registry == {"v4"}

\* derive_identity of the identity scheme, applied to the public-key field
DeriveNodeId(pk) == IF pk = "pkA" THEN "nA" ELSE "nB"
NodeIds == {DeriveNodeId(pk) : pk \in PubKeys}

ValuesOf(k) == IF k = "id" THEN Registry ELSE IF k = "ip" THEN IpValues ELSE PubKeys

\* a key/value mapping: every key maps to a value or is absent
KVs == {kv \in [Keys -> Registry \cup IpValues \cup PubKeys \cup {Absent}] :
           \A k \in Keys : kv[k] = Absent \/ kv[k] \in ValuesOf(k)}
EmptyKV == [k \in Keys |-> Absent]

\* one (key, value) pair, ENR_KV
Pairs == {<<k, v>> : k \in Keys, v \in Registry \cup IpValues \cup PubKeys} \cap
         {pr \in Keys \X (Registry \cup IpValues \cup PubKeys) : pr[2] \in ValuesOf(pr[1])}

\* the tuples of at most n pairs drawn from prs
RECURSIVE PairLists(_, _)
PairLists(prs, n) ==
  IF n = 0 THEN {<<>>}
  ELSE PairLists(prs, n - 1) \cup
       {Append(l, pr) : l \in {x \in PairLists(prs, n - 1) : Len(x) = n - 1}, pr \in prs}

\* ------------------------------------------------------------------ records
NoRecord == [seq |-> 0, kv |-> EmptyKV, sig |-> <<>>]

\* signature over the canonical encoding of (sequence number, sorted pairs)
Sign(priv, seq, kv) == <<priv, seq, kv>>

\* UnsignedENR(...).to_signed_enr(private_key)
ToSignedENR(priv, seq, kv) == [seq |-> seq, kv |-> kv, sig |-> Sign(priv, seq, kv)]

\* the structure an (unsigned) record must have: a registered scheme and a public key
ValidStructure(kv) == kv["id"] \in Registry /\ kv["secp256k1"] # Absent

\* enr.node_id
NodeIdOf(rec) == DeriveNodeId(rec.kv["secp256k1"])

\* merge with the first mapping winning on key collision
merge_first_wins(a, b) == [k \in Keys |-> IF a[k] # Absent THEN a[k] ELSE b[k]]

\* toolz merge(a, b): b wins on key collision
merge(a, b) == [k \in Keys |-> IF b[k] # Absent THEN b[k] ELSE a[k]]

\* dict(kv_pairs) of a tuple of pairs: a later pair overrides an earlier one
RECURSIVE DictOf(_)
DictOf(pairs) == IF pairs = <<>> THEN EmptyKV
                 ELSE LET n == Len(pairs)
                          pre == DictOf(SubSeq(pairs, 1, n - 1))
                      IN [pre EXCEPT ![pairs[n][1]] = pairs[n][2]]

\* tuple(dict(enr).items()): the pairs of a mapping in canonical key order
RECURSIVE ItemsFrom(_, _)
ItemsFrom(kv, i) == IF i > Len(KeyOrder) THEN <<>>
                    ELSE IF kv[KeyOrder[i]] = Absent THEN ItemsFrom(kv, i + 1)
                    ELSE <<(<<KeyOrder[i], kv[KeyOrder[i]]>>)>> \o ItemsFrom(kv, i + 1)
Items(kv) == ItemsFrom(kv, 1)

\* ---------------------------------------------------------------- the store
\* node_db.get_enr(node_id): NoRecord stands for KeyError
GetEnr(db, nid) == db[nid]
\* node_db.set_enr(enr): stored under the record's own identity, overwriting
SetEnr(db, rec) == [db EXCEPT ![NodeIdOf(rec)] = rec]

StoredRecords == {ToSignedENR(k, s, [id |-> "v4", ip |-> ip, secp256k1 |-> PublicKeyOf(k)]) :
                     k \in PrivKeys, s \in 1..MaxStoredSeq, ip \in {"ip1", Absent}}

VARIABLES
  pc,            \* "new" | "constructed" | "failed"
  node_db,       \* the record store: NodeIds -> record or NoRecord
  private_key,   \* self._private_key
  ctor_kv,       \* the kv_pairs mapping the constructor was called with
  enr,           \* self._enr
  node_id,       \* self._node_id
  writes,        \* number of node_db.set_enr calls made by the manager
  last,          \* the latest call of update: its number, caller, pairs, record before
  base_seq,      \* sequence number of the first record the manager held
  effective,     \* number of update calls that found a differing pair
  emitted,       \* every record the manager has held
  observed,      \* what the enr property returned last
  proposals,     \* the pairs callers of update / async_update choose from
  rpc,           \* run(): "init" | "receive" | "waiting" | "got"
  held,          \* the (producer, pair) run() received and has not applied yet
  ppc,           \* async_update per producer: "idle" | "loop" | "parked"
  pending,       \* per producer: pairs of the running call not handed off yet
  send_tasks,    \* producers parked in send, in arrival order
  nsync,         \* synchronous update calls made
  given,         \* per producer: every pair its calls were given, in order
  arrivals,      \* (producer, pair) in the order the producers reached send
  accepted,      \* (producer, pair) in the order the channel handed them to run()
  applied,       \* (producer, pair) in the order run() applied them
  cancel_requested, \* the task of run() has been cancelled and has not seen it yet
  send_closed,   \* self._send_channel has been closed
  run_error,     \* what run() raised: "none" | "sign" | "store"
  identifier,    \* the argument ping_munger is called with
  payload        \* what ping_munger gave: NoPayload | <<string>> | ValueError

vars == <<pc, node_db, private_key, ctor_kv, enr, node_id, writes, last, base_seq,
          effective, emitted, observed, proposals, rpc, held, ppc, pending, send_tasks,
          nsync, given, arrivals, accepted, applied, cancel_requested, send_closed,
          run_error, identifier, payload>>

mgr == <<pc, private_key, ctor_kv, enr, node_id, node_db, writes, last, base_seq,
         effective, emitted>>
chan == <<rpc, held, ppc, pending, send_tasks, given, arrivals, accepted, applied>>
life == <<cancel_requested, send_closed, run_error>>
ping == <<identifier, payload>>

NoCall == [n |-> 0, by |-> "none", pairs |-> <<>>, pre |-> NoRecord]
NoHeld == <<"none", <<"id", "v4">> >>
NoIdentifier == [type |-> "none", head |-> "", len |-> 0, hex |-> FALSE]
NoPayload == "none"
ValueError == "ValueError"

\* run() is in its loop: the service is running
Running == {"receive", "waiting", "got"}
\* run() has left its async with block: the receive side of the channel is closed
Closed == {"crashed", "cancelled", "done"}

\* every store whose records sit under their own identity
Stores == {db \in [NodeIds -> StoredRecords \cup {NoRecord}] :
             \A n \in NodeIds : db[n] # NoRecord => NodeIdOf(db[n]) = n}
EmptyStore == [n \in NodeIds |-> NoRecord]

\* the state before the constructor runs, its arguments chosen
Start(dbs, privs, kvs, prs) ==
  /\ pc = "new"
  /\ proposals = prs
  /\ node_db \in dbs
  /\ private_key \in privs
  /\ ctor_kv \in kvs
  /\ enr = NoRecord
  /\ node_id = "none"
  /\ writes = 0
  /\ last = NoCall
  /\ base_seq = 0
  /\ effective = 0
  /\ emitted = {}
  /\ observed = NoRecord
  /\ rpc = "init"
  /\ held = NoHeld
  /\ ppc = [p \in Producers |-> "idle"]
  /\ pending = [p \in Producers |-> <<>>]
  /\ send_tasks = <<>>
  /\ nsync = 0
  /\ given = [p \in Producers |-> <<>>]
  /\ arrivals = <<>>
  /\ accepted = <<>>
  /\ applied = <<>>
  /\ cancel_requested = FALSE
  /\ send_closed = FALSE
  /\ run_error = "none"
  /\ payload = NoPayload

\* ------------------------------------------------------------------ update
\* the test of update without the comparison against the current record
Differs_any_pair(rec, pairs) == pairs # <<>>

\* the any(...) test of update
Differs(rec, pairs) ==
  \E i \in DOMAIN pairs : rec.kv[pairs[i][1]] = Absent \/ rec.kv[pairs[i][1]] # pairs[i][2]

\* update skipping a sequence number
UpdatedENR_skip(rec, priv, pairs) ==
  IF Differs(rec, pairs)
  THEN ToSignedENR(priv, rec.seq + 2, merge(rec.kv, DictOf(pairs)))
  ELSE rec

\* update signing the merged pairs under the old sequence number
UpdatedENR_same_seq(rec, priv, pairs) ==
  IF Differs(rec, pairs)
  THEN ToSignedENR(priv, rec.seq, merge(rec.kv, DictOf(pairs)))
  ELSE rec

\* update raising the sequence number once per differing pair
UpdatedENR_per_pair(rec, priv, pairs) ==
  IF Differs(rec, pairs)
  THEN ToSignedENR(priv,
                   rec.seq + Cardinality({i \in DOMAIN pairs : rec.kv[pairs[i][1]] # pairs[i][2]}),
                   merge(rec.kv, DictOf(pairs)))
  ELSE rec

\* the record update leaves in self._enr
UpdatedENR(rec, priv, pairs) ==
  IF Differs(rec, pairs)
  THEN ToSignedENR(priv, rec.seq + 1, merge(rec.kv, DictOf(pairs)))
  ELSE rec

\* the store after update
UpdatedDB(db, rec, priv, pairs) ==
  IF Differs(rec, pairs) THEN SetEnr(db, UpdatedENR(rec, priv, pairs)) ELSE db

\* one call of update(*pairs) by `by`, with self._enr = rec when it starts
update(by, priv, rec, pairs) ==
  /\ enr' = UpdatedENR(rec, priv, pairs)
  /\ node_db' = UpdatedDB(node_db, rec, priv, pairs)
  /\ writes' = IF Differs(rec, pairs) THEN writes + 1 ELSE writes
  /\ effective' = IF \E i \in DOMAIN pairs : rec.kv[pairs[i][1]] # pairs[i][2]
                  THEN effective + 1 ELSE effective
  /\ emitted' = emitted \cup {rec, enr'}
  /\ last' = [n |-> last.n + 1, by |-> by, pairs |-> pairs, pre |-> rec]

\* ------------------------------------------------------------- constructor
IdentityKV(priv, kv) ==
  IF kv["id"] # Absent THEN EmptyKV
  ELSE [id |-> "v4", ip |-> Absent, secp256k1 |-> PublicKeyOf(priv)]

\* the minimal record's pairs with the defaults winning over the caller's
MinimalKV_defaults_win(priv, kv) == merge(kv, IdentityKV(priv, kv))

MinimalKV(priv, kv) == merge(IdentityKV(priv, kv), kv)

\* a constructor that replays nothing on the reconciliation path
ReplayPairs_none(priv, kv) == <<>>

\* a constructor that replays the caller's pairs only
ReplayPairs_caller_only(priv, kv) == Items(kv)

\* the pairs the constructor hands to update on the reconciliation path
ReplayPairs(priv, kv) == Items(MinimalKV(priv, kv))

Construct ==
  /\ UNCHANGED <<life, ping>>
  /\ pc = "new"
  /\ LET priv == private_key
         kv == ctor_kv
     IN
       /\ IF ~ValidStructure(MinimalKV(priv, kv))
          THEN /\ pc' = "failed"
               /\ UNCHANGED <<enr, node_id, node_db, writes, last, base_seq, effective, emitted>>
          ELSE LET minimal_enr == ToSignedENR(priv, 1, MinimalKV(priv, kv))
                   nid == NodeIdOf(minimal_enr)
                   base_enr == GetEnr(node_db, nid)
               IN /\ pc' = "constructed"
                  /\ node_id' = nid
                  /\ IF base_enr = NoRecord
                     THEN /\ enr' = minimal_enr
                          /\ node_db' = SetEnr(node_db, minimal_enr)
                          /\ writes' = writes + 1
                          /\ base_seq' = 1
                          /\ emitted' = {minimal_enr}
                          /\ UNCHANGED <<last, effective>>
                     ELSE /\ base_seq' = base_enr.seq
                          /\ update("ctor", priv, base_enr, ReplayPairs(priv, kv))
  /\ UNCHANGED <<private_key, ctor_kv, observed, proposals, nsync>>
  /\ UNCHANGED chan

\* the enr property
GetCurrent ==
  /\ UNCHANGED <<life, ping>>
  /\ pc = "constructed"
  /\ observed # enr
  /\ observed' = enr
  /\ UNCHANGED <<mgr, chan, proposals, nsync>>

\* a synchronous call of update by the owner
SyncUpdate ==
  /\ UNCHANGED <<life, ping>>
  /\ pc = "constructed"
  /\ nsync < MaxSync
  /\ \E pairs \in PairLists(proposals, MaxPairs) : update("sync", private_key, enr, pairs)
  /\ nsync' = nsync + 1
  /\ UNCHANGED <<pc, private_key, ctor_kv, node_id, base_seq, observed, proposals>>
  /\ UNCHANGED chan

\* ------------------------------------------------------------- queued path
\* the service starts: run() enters its receive loop
StartRun ==
  /\ UNCHANGED <<life, ping>>
  /\ pc = "constructed"
  /\ rpc = "init"
  /\ rpc' = "receive"
  /\ UNCHANGED <<mgr, observed, proposals, nsync, held, ppc, pending, send_tasks, given,
                 arrivals, accepted, applied>>

\* the pairs async_update has been given so far
RECURSIVE SumLen(_, _)
SumLen(f, S) == IF S = {} THEN 0
                ELSE LET x == CHOOSE y \in S : TRUE IN Len(f[x]) + SumLen(f, S \ {x})
Queued == SumLen(given, Producers)

\* a producer calls async_update(*pairs) on the running service
AsyncUpdate(p) ==
  /\ UNCHANGED <<life, ping>>
  /\ rpc \in Running
  /\ ppc[p] = "idle"
  /\ \E pairs \in PairLists(proposals, MaxPairs) :
       /\ Queued + Len(pairs) <= MaxQueued
       /\ pending' = [pending EXCEPT ![p] = pairs]
       /\ given' = [given EXCEPT ![p] = @ \o pairs]
  /\ ppc' = [ppc EXCEPT ![p] = "loop"]
  /\ UNCHANGED <<mgr, observed, proposals, nsync, rpc, held, send_tasks, arrivals, accepted, applied>>

\* async_update handing off the pairs of a call last first
Send_reversed(p) ==
  /\ UNCHANGED <<life, ping>>
  /\ ppc[p] = "loop"
  /\ pending[p] # <<>>
  /\ LET n == Len(pending[p])
         pair == pending[p][n]
     IN /\ arrivals' = Append(arrivals, <<p, pair>>)
        /\ IF rpc = "waiting"
           THEN /\ held' = <<p, pair>>
                /\ rpc' = "got"
                /\ accepted' = Append(accepted, <<p, pair>>)
                /\ pending' = [pending EXCEPT ![p] = SubSeq(@, 1, n - 1)]
                /\ UNCHANGED <<ppc, send_tasks>>
           ELSE /\ send_tasks' = Append(send_tasks, p)
                /\ pending' = [pending EXCEPT ![p] = <<pair>> \o SubSeq(@, 1, n - 1)]
                /\ ppc' = [ppc EXCEPT ![p] = "parked"]
                /\ UNCHANGED <<held, rpc, accepted>>
  /\ UNCHANGED <<mgr, observed, proposals, nsync, given, applied>>

\* async_update applying the pair itself instead of handing it off
Send_applies(p) ==
  /\ UNCHANGED <<life, ping>>
  /\ ppc[p] = "loop"
  /\ pending[p] # <<>>
  /\ arrivals' = Append(arrivals, <<p, Head(pending[p])>>)
  /\ enr' = UpdatedENR(enr, private_key, <<Head(pending[p])>>)
  /\ node_db' = UpdatedDB(node_db, enr, private_key, <<Head(pending[p])>>)
  /\ pending' = [pending EXCEPT ![p] = Tail(@)]
  /\ UNCHANGED <<pc, private_key, ctor_kv, node_id, writes, last, base_seq, effective,
                 emitted, observed, proposals, nsync, rpc, held, ppc, send_tasks, given,
                 accepted, applied>>

\* send on a channel that buffers: the pair is accepted with no receiver waiting
Send_buffered(p) ==
  /\ UNCHANGED <<life, ping>>
  /\ ppc[p] = "loop"
  /\ pending[p] # <<>>
  /\ arrivals' = Append(arrivals, <<p, Head(pending[p])>>)
  /\ accepted' = Append(accepted, <<p, Head(pending[p])>>)
  /\ pending' = [pending EXCEPT ![p] = Tail(@)]
  /\ IF rpc = "waiting"
     THEN /\ held' = <<p, Head(pending[p])>>
          /\ rpc' = "got"
     ELSE UNCHANGED <<held, rpc>>
  /\ UNCHANGED <<mgr, observed, proposals, nsync, ppc, send_tasks, given, applied>>

\* await self._send_channel.send(kv_pair) on a channel of capacity 0
Send(p) ==
  /\ UNCHANGED <<life, ping>>
  /\ ~send_closed
  /\ rpc \notin Closed
  /\ ppc[p] = "loop"
  /\ pending[p] # <<>>
  /\ arrivals' = Append(arrivals, <<p, Head(pending[p])>>)
  /\ IF rpc = "waiting"
     THEN /\ held' = <<p, Head(pending[p])>>
          /\ rpc' = "got"
          /\ accepted' = Append(accepted, <<p, Head(pending[p])>>)
          /\ pending' = [pending EXCEPT ![p] = Tail(@)]
          /\ UNCHANGED <<ppc, send_tasks>>
     ELSE /\ send_tasks' = Append(send_tasks, p)
          /\ ppc' = [ppc EXCEPT ![p] = "parked"]
          /\ UNCHANGED <<held, rpc, accepted, pending>>
  /\ UNCHANGED <<mgr, observed, proposals, nsync, given, applied>>

\* the for loop of async_update is exhausted: the call returns
Return(p) ==
  /\ UNCHANGED <<life, ping>>
  /\ ppc[p] = "loop"
  /\ pending[p] = <<>>
  /\ ppc' = [ppc EXCEPT ![p] = "idle"]
  /\ UNCHANGED <<mgr, observed, proposals, nsync, rpc, held, pending, send_tasks, given,
                 arrivals, accepted, applied>>

\* a receive that never looks at the producers parked in send
Receive_ignores_parked ==
  /\ UNCHANGED <<life, ping>>
  /\ rpc = "receive"
  /\ ~cancel_requested
  /\ ~send_closed
  /\ rpc' = "waiting"
  /\ UNCHANGED <<held, accepted, pending, ppc, send_tasks>>
  /\ UNCHANGED <<mgr, observed, proposals, nsync, given, arrivals, applied>>

\* a receive that does not see the cancellation and goes on serving producers
Receive_after_cancel ==
  /\ UNCHANGED <<life, ping>>
  /\ rpc = "receive"
  /\ ~send_closed
  /\ IF send_tasks # <<>>
     THEN LET p == Head(send_tasks)
          IN /\ held' = <<p, Head(pending[p])>>
             /\ accepted' = Append(accepted, <<p, Head(pending[p])>>)
             /\ pending' = [pending EXCEPT ![p] = Tail(@)]
             /\ ppc' = [ppc EXCEPT ![p] = "loop"]
             /\ send_tasks' = Tail(send_tasks)
             /\ rpc' = "got"
     ELSE /\ rpc' = "waiting"
          /\ UNCHANGED <<held, accepted, pending, ppc, send_tasks>>
  /\ UNCHANGED <<mgr, observed, proposals, nsync, given, arrivals, applied>>

\* run(): the async for asks the channel for the next pair
Receive ==
  /\ UNCHANGED <<life, ping>>
  /\ rpc = "receive"
  /\ ~cancel_requested
  /\ ~send_closed
  /\ IF send_tasks # <<>>
     THEN LET p == Head(send_tasks)
          IN /\ held' = <<p, Head(pending[p])>>
             /\ accepted' = Append(accepted, <<p, Head(pending[p])>>)
             /\ pending' = [pending EXCEPT ![p] = Tail(@)]
             /\ ppc' = [ppc EXCEPT ![p] = "loop"]
             /\ send_tasks' = Tail(send_tasks)
             /\ rpc' = "got"
     ELSE /\ rpc' = "waiting"
          /\ UNCHANGED <<held, accepted, pending, ppc, send_tasks>>
  /\ UNCHANGED <<mgr, observed, proposals, nsync, given, arrivals, applied>>

\* run(): self.update((key, value)) on the received pair
Apply ==
  /\ UNCHANGED <<life, ping>>
  /\ rpc = "got"
  /\ update("run", private_key, enr, <<held[2]>>)
  /\ applied' = Append(applied, held)
  /\ held' = NoHeld
  /\ rpc' = "receive"
  /\ UNCHANGED <<pc, private_key, ctor_kv, node_id, base_seq, observed, proposals, nsync,
                 ppc, pending, send_tasks, given, arrivals, accepted>>

\* ------------------------------------------------------- failure and stop
\* the receive side is closed on leaving the async with block: every producer
\* parked in send is woken with an error
WokenWithError == [p \in Producers |-> IF ppc[p] = "parked" THEN "broken" ELSE ppc[p]]

\* update raising: to_signed_enr fails before self._enr is assigned, set_enr
\* fails after it
update_raises(by, kind, priv, rec, pairs) ==
  /\ Differs(rec, pairs)
  /\ last' = [n |-> last.n + 1, by |-> by, pairs |-> pairs, pre |-> rec]
  /\ effective' = effective + 1
  /\ IF kind = "sign"
     THEN UNCHANGED <<enr, emitted>>
     ELSE /\ enr' = UpdatedENR(rec, priv, pairs)
          /\ emitted' = emitted \cup {UpdatedENR(rec, priv, pairs)}
  /\ UNCHANGED <<node_db, writes>>

\* a failure of update that run() catches and steps over
ApplyFail_continue(kind) ==
  /\ rpc = "got"
  /\ update_raises("run", kind, private_key, enr, <<held[2]>>)
  /\ run_error' = kind
  /\ held' = NoHeld
  /\ rpc' = "receive"
  /\ UNCHANGED <<pc, private_key, ctor_kv, node_id, base_seq, observed, proposals, nsync,
                 ppc, send_tasks, pending, given, arrivals, accepted, applied,
                 cancel_requested, send_closed, ping>>

\* run(): self.update((key, value)) raises; nothing in run() catches it
ApplyFail(kind) ==
  /\ rpc = "got"
  /\ update_raises("run", kind, private_key, enr, <<held[2]>>)
  /\ run_error' = kind
  /\ rpc' = "crashed"
  /\ ppc' = WokenWithError
  /\ send_tasks' = <<>>
  /\ UNCHANGED <<pc, private_key, ctor_kv, node_id, base_seq, observed, proposals, nsync,
                 held, pending, given, arrivals, accepted, applied, cancel_requested,
                 send_closed, ping>>

\* the service is stopped: the task of run() is cancelled; a task blocked in
\* receive is taken off the channel at once, a task that already holds a pair
\* sees the cancellation at its next receive
StopRequest ==
  /\ rpc \in Running
  /\ ~cancel_requested
  /\ cancel_requested' = TRUE
  /\ rpc' = IF rpc = "waiting" THEN "receive" ELSE rpc
  /\ UNCHANGED <<mgr, observed, proposals, nsync, held, ppc, pending, send_tasks, given,
                 arrivals, accepted, applied, send_closed, run_error, ping>>

\* run(): receive raises Cancelled and the async with block closes the receive side
Cancelled ==
  /\ rpc = "receive"
  /\ cancel_requested
  /\ rpc' = "cancelled"
  /\ ppc' = WokenWithError
  /\ send_tasks' = <<>>
  /\ UNCHANGED <<mgr, observed, proposals, nsync, held, pending, given, arrivals, accepted,
                 applied, life, ping>>

\* a close of the send side that leaves the task blocked in receive asleep
CloseSend_no_wake ==
  /\ rpc \in Running
  /\ ~send_closed
  /\ send_closed' = TRUE
  /\ ppc' = WokenWithError
  /\ send_tasks' = <<>>
  /\ UNCHANGED <<mgr, observed, proposals, nsync, rpc, held, pending, given, arrivals,
                 accepted, applied, cancel_requested, run_error, ping>>

\* self._send_channel is closed: producers parked in send are woken with an
\* error, a task blocked in receive is woken with the end of the channel
CloseSend ==
  /\ rpc \in Running
  /\ ~send_closed
  /\ send_closed' = TRUE
  /\ ppc' = WokenWithError
  /\ send_tasks' = <<>>
  /\ rpc' = IF rpc = "waiting" THEN "receive" ELSE rpc
  /\ UNCHANGED <<mgr, observed, proposals, nsync, held, pending, given, arrivals, accepted,
                 applied, cancel_requested, run_error, ping>>

\* run(): the async for ends at the end of the channel and the async with
\* block closes the receive side
Finish ==
  /\ rpc = "receive"
  /\ send_closed
  /\ ~cancel_requested
  /\ rpc' = "done"
  /\ UNCHANGED <<mgr, observed, proposals, nsync, held, ppc, pending, send_tasks, given,
                 arrivals, accepted, applied, life, ping>>

\* await self._send_channel.send(kv_pair) on a channel closed on either side
SendRaises(p) ==
  /\ ppc[p] = "loop"
  /\ pending[p] # <<>>
  /\ send_closed \/ rpc \in Closed
  /\ ppc' = [ppc EXCEPT ![p] = "broken"]
  /\ UNCHANGED <<mgr, observed, proposals, nsync, rpc, held, pending, send_tasks, given,
                 arrivals, accepted, applied, life, ping>>

\* ------------------------------------------------------------ ping_munger
\* An identifier is a value of one of four types. A string is its head, the
\* prefix the code tests for ("" when it starts with none of them), followed
\* by len further characters, which are all hexadecimal digits or not; bytes
\* have len bytes; an ENR object has a text form of "enr:" and len characters.
NodeIdBytes == 32
NodeIdHexLen == 64
Heads == {"", "0x", "0X", "enode://", "enr:"}
HeadLen(h) == IF h = "" THEN 0 ELSE IF h = "enode://" THEN 8 ELSE IF h = "enr:" THEN 4 ELSE 2
Str(h, l, x) == [type |-> "str", head |-> h, len |-> l, hex |-> x]
Identifiers ==
  {[type |-> "ENR", head |-> "enr:", len |-> l, hex |-> FALSE] : l \in 1..MaxIdLen} \cup
  {[type |-> "bytes", head |-> "", len |-> l, hex |-> FALSE] : l \in 0..MaxIdLen} \cup
  {Str(h, l, x) : h \in Heads, l \in 1..MaxIdLen, x \in BOOLEAN} \cup
  {Str(h, 0, TRUE) : h \in Heads} \cup
  {[type |-> "int", head |-> "", len |-> 0, hex |-> FALSE]}

StrLen(v) == HeadLen(v.head) + v.len
is_0x_prefixed(v) == v.head \in {"0x", "0X"}
remove_0x_prefix(v) == IF is_0x_prefixed(v) THEN Str("", v.len, v.hex) ELSE v
add_0x_prefix(v) == IF is_0x_prefixed(v) THEN v ELSE Str("0x", StrLen(v), v.hex /\ v.head = "")
encode_hex(b) == Str("0x", 2 * b.len, TRUE)
repr(e) == Str("enr:", e.len, FALSE)

\* the payload for the discv5_ping endpoint, or ValueError
ping_munger(id) ==
  IF id.type = "ENR" THEN <<repr(id)>>
  ELSE IF id.type = "bytes"
       THEN IF id.len = NodeIdBytes THEN <<encode_hex(id)>> ELSE ValueError
  ELSE IF id.type = "str"
       THEN IF id.head \in {"enode://", "enr:"} THEN <<id>>
            ELSE IF StrLen(remove_0x_prefix(id)) = NodeIdHexLen THEN <<add_0x_prefix(id)>>
            ELSE ValueError
  ELSE ValueError

\* a call of ping_munger
PingMunger ==
  /\ payload = NoPayload
  /\ payload' = ping_munger(identifier)
  /\ UNCHANGED <<mgr, chan, life, observed, proposals, nsync, identifier>>

\* the manager as a service: constructor, accessor, producers and consumer loop
Next ==
  \/ Construct
  \/ GetCurrent
  \/ StartRun
  \/ \E p \in Producers : AsyncUpdate(p)
  \/ \E p \in Producers : Send(p)
  \/ \E p \in Producers : Return(p)
  \/ Receive
  \/ Apply

\* the queued path, over a store that is empty or holds one earlier record of the identity
QueueStores == {db \in Stores : db["nB"] = NoRecord /\ db["nA"].kv["ip"] = Absent
                                /\ db["nA"].seq \in {0, MaxStoredSeq}}
QueueKVs == {EmptyKV, [EmptyKV EXCEPT !["ip"] = "ip1"]}
QueuePairs == {<<"ip", "ip1">>, <<"ip", "ip2">>}
Init == Start(QueueStores, {"k1"}, QueueKVs, QueuePairs) /\ identifier = NoIdentifier
Spec == Init /\ [][Next]_vars

\* the constructor and the synchronous operations, over every store and argument
NextSync == Construct \/ SyncUpdate
SyncStores == {db \in Stores : \E n \in NodeIds : db[n] = NoRecord}
InitSync == Start(SyncStores, PrivKeys, KVs, Pairs) /\ identifier = NoIdentifier
SpecSync == InitSync /\ [][NextSync]_vars

\* calls of ping_munger over the identifiers
InitPing == Start({EmptyStore}, {"k1"}, {EmptyKV}, {}) /\ identifier \in Identifiers
SpecPing == InitPing /\ [][PingMunger]_vars

\* the service whose producer side gets closed, the task of run() scheduled
\* whenever it can take a step
NextClose ==
  \/ Construct
  \/ StartRun
  \/ \E p \in Producers : AsyncUpdate(p)
  \/ \E p \in Producers : Send(p)
  \/ \E p \in Producers : Return(p)
  \/ Receive
  \/ Apply
  \/ CloseSend
  \/ Finish
  \/ \E p \in Producers : SendRaises(p)
SpecClose ==
  Init /\ [][NextClose]_vars /\ WF_vars(Receive) /\ WF_vars(Apply) /\ WF_vars(Finish)

\* the service with every task scheduled whenever it can take a step
SpecFair ==
  /\ Init /\ [][Next]_vars
  /\ WF_vars(Receive) /\ WF_vars(Apply)
  /\ \A p \in Producers : WF_vars(Send(p)) /\ WF_vars(Return(p))

\* the service with a failing update, a stop of the service and a close of
\* the producer side; one producer call is enough for pairs to be left behind
NextLife ==
  \/ Construct
  \/ StartRun
  \/ \E p \in Producers : AsyncUpdate(p)
  \/ \E p \in Producers : Send(p)
  \/ \E p \in Producers : Return(p)
  \/ Receive
  \/ Apply
  \/ \E kind \in {"sign", "store"} : ApplyFail(kind)
  \/ StopRequest
  \/ Cancelled
  \/ CloseSend
  \/ Finish
  \/ \E p \in Producers : SendRaises(p)
SpecLife == Init /\ [][NextLife]_vars

\* ------------------------------------------------------------------ claims
\* some pair of the list is absent from the record or has another value in it
SomePairDiffers(rec, pairs) ==
  \E i \in 1..Len(pairs) : rec.kv[pairs[i][1]] # pairs[i][2]

\* C1: over every sequence of update calls (by the constructor, a synchronous
\* caller or the consumer loop) the current record's sequence number never
\* decreases; a call with a differing pair raises it by exactly 1, any other
\* call and any other step leaves it as it is.
C1_SeqStep ==
  /\ last'.n # last.n =>
        enr'.seq = last'.pre.seq + (IF SomePairDiffers(last'.pre, last'.pairs) THEN 1 ELSE 0)
  /\ pc = "constructed" =>
        /\ enr'.seq >= enr.seq
        /\ last'.n # last.n => last'.pre = enr
        /\ last'.n = last.n => enr'.seq = enr.seq
        /\ \A r \in emitted' : r.seq <= enr'.seq
C1_Monotonic == [][C1_SeqStep]_vars

\* the constructor's update and then a queued pair each raised the sequence number
C1_Witness ==
  /\ base_seq = MaxStoredSeq
  /\ ctor_kv["ip"] = "ip1"
  /\ last.by = "run"
  /\ last.n = 2
  /\ last.pairs = <<(<<"ip", "ip2">>)>>
  /\ enr.seq = base_seq + 2

\* C2: a call of update whose pairs are all present in the current record with
\* the same value (the empty list included) leaves the record, its signature
\* and the store as they were and makes no set_enr call.
C2_IdleStep ==
  (last'.n # last.n /\ ~SomePairDiffers(last'.pre, last'.pairs)) =>
     /\ enr' = last'.pre
     /\ node_db' = node_db
     /\ writes' = writes
C2_Idempotent == [][C2_IdleStep]_vars

\* a synchronous update repeated pairs of the current record and changed nothing
C2_Witness ==
  /\ last.by = "sync"
  /\ Len(last.pairs) = MaxPairs
  /\ ~SomePairDiffers(last.pre, last.pairs)
  /\ enr = last.pre
  /\ enr.seq = base_seq

\* the value the last pair for key k supplies
LastSupplied(pairs, k) ==
  LET idx == {i \in 1..Len(pairs) : pairs[i][1] = k}
      top == CHOOSE i \in idx : \A j \in idx : j <= i
  IN pairs[top][2]

\* C3: after an effective update every supplied key holds the supplied value
\* (the last one when the list names the key more than once) and every key
\* that was not supplied holds what it held before: nothing is removed.
C3_Merge ==
  (last.by # "none" /\ SomePairDiffers(last.pre, last.pairs)) =>
     \A k \in Keys :
        IF \E i \in 1..Len(last.pairs) : last.pairs[i][1] = k
        THEN enr.kv[k] = LastSupplied(last.pairs, k)
        ELSE enr.kv[k] = last.pre.kv[k]

\* an update added an absent key and replaced nothing else
C3_Witness ==
  /\ last.by = "sync"
  /\ last.pairs = <<(<<"ip", "ip1">>), (<<"secp256k1", "pkB">>)>>
  /\ last.pre.kv = [id |-> "v4", ip |-> Absent, secp256k1 |-> "pkA"]
  /\ enr.kv = [id |-> "v4", ip |-> "ip1", secp256k1 |-> "pkB"]

\* C4: the identity derived from the current record equals the identity fixed
\* at construction (_node_id) in every state, so every store write lands
\* under that identity.
C4_IdentityStable ==
  pc = "constructed" => (NodeIdOf(enr) = node_id /\ node_db[node_id] = enr)

IsPrefix(s, t) == Len(s) <= Len(t) /\ SubSeq(t, 1, Len(s)) = s

\* the pairs of producer p in a sequence of (producer, pair)
RECURSIVE PairsOf(_, _)
PairsOf(sq, p) ==
  IF sq = <<>> THEN <<>>
  ELSE IF Head(sq)[1] = p THEN <<Head(sq)[2]>> \o PairsOf(Tail(sq), p)
  ELSE PairsOf(Tail(sq), p)

\* C5: the consumer loop applies pairs in the order the channel accepted
\* them, the channel accepts them in the order the producers reached send,
\* and so each producer's pairs are applied in the order its calls listed them.
C5_Fifo ==
  /\ IsPrefix(applied, accepted)
  /\ IsPrefix(accepted, arrivals)
  /\ \A p \in Producers :
        /\ IsPrefix(PairsOf(arrivals, p), given[p])
        /\ IsPrefix(PairsOf(applied, p), given[p])

\* A's two pairs were applied in order with B's pair between them
C5_Witness ==
  /\ Len(applied) = 3
  /\ applied[1][1] = "A" /\ applied[2][1] = "B" /\ applied[3][1] = "A"
  /\ applied[1][2] # applied[3][2]
  /\ given["A"] = <<applied[1][2], applied[3][2]>>

\* nothing is in flight: every call has returned and the loop holds no pair
Drained ==
  /\ rpc \in {"receive", "waiting"}
  /\ send_tasks = <<>>
  /\ \A p \in Producers : ppc[p] = "idle"

\* C6: with concurrent producers no two distinct records carry the same
\* sequence number, the sequence number has grown by exactly the number of
\* update calls that found a differing pair, and once everything is drained
\* every pair given to async_update has been applied: none is lost.
C6_NoRace ==
  /\ \A r1, r2 \in emitted : r1.seq = r2.seq => r1 = r2
  /\ pc = "constructed" => enr.seq = base_seq + effective
  /\ Len(accepted) - Len(applied) = (IF rpc = "got" THEN 1 ELSE 0)
  /\ Drained =>
        /\ applied = arrivals
        /\ \A p \in Producers : PairsOf(applied, p) = given[p]

\* two producers were drained and both their pairs raised the sequence number
C6_Witness ==
  /\ Drained
  /\ given["A"] # <<>> /\ given["B"] # <<>>
  /\ Len(applied) = MaxQueued
  /\ enr.seq >= base_seq + 2

\* C7: once the manager is constructed the record and the store change only
\* in a step that calls update; the steps of async_update and of the enr
\* accessor leave them alone, and async_update can return before its pair is
\* applied.
C7_Step ==
  (pc = "constructed" /\ last'.n = last.n) =>
     (enr' = enr /\ node_db' = node_db /\ writes' = writes /\ node_id' = node_id)
C7_Frame == [][C7_Step]_vars

\* async_update has returned, the accessor was read, the pair is not applied yet
C7_Witness ==
  /\ rpc = "got"
  /\ held[1] = "A"
  /\ ppc["A"] = "idle"
  /\ given["A"] = <<held[2]>>
  /\ applied = <<>>
  /\ enr.kv["ip"] # held[2][2]
  /\ observed = enr

\* C8: on the creation path the current record has sequence number 1, holds
\* the caller's pairs plus - only when the caller gave no b"id" - the two
\* defaults, caller values winning, and is the record the store holds under
\* the derived identity.
C8_Creation ==
  (pc = "constructed" /\ last.by = "none") =>
     /\ enr.seq = 1
     /\ \A k \in Keys :
           enr.kv[k] = IF ctor_kv[k] # Absent THEN ctor_kv[k]
                       ELSE IF ctor_kv["id"] # Absent THEN Absent
                       ELSE IF k = "id" THEN "v4"
                       ELSE IF k = "secp256k1" THEN PublicKeyOf(private_key)
                       ELSE Absent
     /\ node_id = DeriveNodeId(enr.kv["secp256k1"])
     /\ node_db[node_id] = enr
     /\ writes = 1

\* created with no initial pairs: exactly the two default keys
C8_Witness ==
  /\ pc = "constructed" /\ last.by = "none"
  /\ ctor_kv = EmptyKV
  /\ enr.seq = 1
  /\ enr.kv = [id |-> "v4", ip |-> Absent, secp256k1 |-> PublicKeyOf(private_key)]
  /\ node_db[node_id] = enr

\* C9: on the reconciliation path, when a caller pair is absent from the
\* stored record or differs in it, the current record has the stored sequence
\* number plus 1, holds every caller pair and every other key of the stored
\* record with its stored value, and is written to the store.
C9_Reconcile ==
  (last.by = "ctor" /\ \E k \in Keys : ctor_kv[k] # Absent /\ last.pre.kv[k] # ctor_kv[k]) =>
     /\ base_seq = last.pre.seq
     /\ enr.seq = last.pre.seq + 1
     /\ \A k \in Keys : enr.kv[k] = IF ctor_kv[k] # Absent THEN ctor_kv[k] ELSE last.pre.kv[k]
     /\ node_db[node_id] = enr
     /\ writes = 1

\* a stored record at the highest sequence number picked up the caller's pair
C9_Witness ==
  /\ last.by = "ctor"
  /\ last.pre.seq = MaxStoredSeq
  /\ last.pre.kv["ip"] = Absent
  /\ ctor_kv = [EmptyKV EXCEPT !["ip"] = "ip1"]
  /\ enr.seq = MaxStoredSeq + 1
  /\ enr.kv["ip"] = "ip1"
  /\ node_db[node_id] = enr

\* the pairs of a list, as a set
PairSet(pairs) == {pairs[i] : i \in 1..Len(pairs)}

\* C10 as stated: on the reconciliation path the constructor replays the
\* caller's original pairs only, and when all of them are in the stored record
\* the sequence number stays and nothing is written.
C10_CallerPairsOnly ==
  last.by = "ctor" =>
     /\ PairSet(last.pairs) = {pr \in Pairs : ctor_kv[pr[1]] = pr[2]}
     /\ (\A k \in Keys : ctor_kv[k] # Absent => last.pre.kv[k] = ctor_kv[k]) =>
           (enr = last.pre /\ writes = 0)

\* C10 amended: on the reconciliation path the constructor replays the pairs
\* of the minimal record - the caller's pairs and, when the caller gave no
\* b"id", the two defaults not overridden by the caller - and when all of
\* those are in the stored record the sequence number stays and nothing is
\* written.
C10_MinimalPairs ==
  last.by = "ctor" =>
     LET replayed == {pr \in Pairs :
                        \/ ctor_kv[pr[1]] = pr[2]
                        \/ /\ ctor_kv["id"] = Absent
                           /\ ctor_kv[pr[1]] = Absent
                           /\ pr \in {<<"id", "v4">>, <<"secp256k1", PublicKeyOf(private_key)>>}}
     IN /\ PairSet(last.pairs) = replayed
        /\ (\A pr \in replayed : last.pre.kv[pr[1]] = pr[2]) =>
              (enr = last.pre /\ enr.seq = base_seq /\ writes = 0 /\ node_db[node_id] = last.pre)

\* no caller pairs: the defaults were replayed against the stored record for nothing
C10_Witness ==
  /\ last.by = "ctor"
  /\ ctor_kv = EmptyKV
  /\ last.pairs = <<(<<"id", "v4">>), (<<"secp256k1", PublicKeyOf(private_key)>>)>>
  /\ enr = last.pre
  /\ enr.seq = MaxStoredSeq
  /\ writes = 0

\* C11: a failure of update inside the consumer loop stops the manager: the
\* error leaves run (it is recorded exactly when the loop has crashed), the
\* loop never goes on past the failing pair, the receive side is closed with
\* the parked producers woken, and from then on nothing is received or
\* applied and neither the record nor the store changes.
C11_Step ==
  /\ (run_error' # "none") = (rpc' = "crashed")
  /\ (rpc' = "crashed" /\ rpc # "crashed") =>
        /\ rpc = "got"
        /\ accepted' = Append(applied', held')
        /\ applied' = applied
        /\ node_db' = node_db
        /\ send_tasks' = <<>>
        /\ \A p \in Producers : ppc'[p] # "parked"
  /\ rpc = "crashed" =>
        /\ rpc' = "crashed"
        /\ UNCHANGED <<enr, node_db, writes, applied, accepted, held, run_error>>
  /\ rpc' \in {"receive", "waiting"} => applied' = accepted'
C11_FailureIsFatal == [][C11_Step]_vars

\* the loop crashed on B's pair while A was parked with a pair of its own,
\* after one pair had been applied
C11_Witness ==
  /\ rpc = "crashed"
  /\ run_error = "sign"
  /\ Len(applied) = 1
  /\ held[1] = "B"
  /\ ppc["A"] = "broken"
  /\ pending["A"] # <<>>

\* C12 as stated: from the moment the background task is stopped no queued
\* pair is applied and neither the record nor the store changes.
C12_StopStep ==
  cancel_requested => UNCHANGED <<applied, enr, node_db>>
C12_NothingAfterStop == [][C12_StopStep]_vars

\* C12: from the moment the background task is stopped the loop receives no
\* further pair; the one pair it may already hold is applied, once, and then
\* the loop exits and closes the receive side, waking the parked producers
\* with an error; after that nothing is applied and neither the record nor
\* the store changes, so the pairs not received by the stop are lost.
C12_Step ==
  /\ cancel_requested =>
        /\ cancel_requested'
        /\ accepted' = accepted
        /\ applied' # applied => (rpc = "got" /\ applied' = Append(applied, held) /\ applied' = accepted)
        /\ rpc' \notin {"waiting", "done"}
  /\ (rpc' = "cancelled" /\ rpc # "cancelled") =>
        /\ cancel_requested
        /\ applied = accepted
        /\ send_tasks' = <<>>
        /\ \A p \in Producers : ppc'[p] # "parked"
  /\ rpc = "cancelled" =>
        /\ rpc' = "cancelled"
        /\ UNCHANGED <<enr, node_db, writes, applied, accepted, held, pending>>
C12_LostAfterStop == [][C12_Step]_vars

\* the loop was stopped, has exited after applying what it had received, and
\* a producer is left with pairs that were never handed off
C12_Witness ==
  /\ rpc = "cancelled"
  /\ applied # <<>>
  /\ applied = accepted
  /\ \E p \in Producers : ppc[p] = "broken" /\ Len(pending[p]) = 2

\* C19: after an update that failed, the current record is the record from
\* before the call and is the record the store holds for the identity.
C19_FailedUpdateUnchanged ==
  run_error # "none" => (enr = last.pre /\ GetEnr(node_db, node_id) = enr)

\* C13: the loop leaves only by the close of the producer side, and then
\* cleanly: no error, every pair it received applied, the receive side closed;
\* a pair it holds is always applied, and once the producer side is closed the
\* loop does terminate.
C13_CleanExit ==
  /\ [](rpc \in Closed =>
          /\ rpc = "done"
          /\ send_closed
          /\ run_error = "none"
          /\ applied = accepted
          /\ send_tasks = <<>>)
  /\ \A n \in 1..MaxQueued : (Len(accepted) = n) ~> (Len(applied) = n)
  /\ send_closed ~> (rpc = "done")

\* the producer side was closed while the loop held a pair and a producer was
\* parked: the pair was applied, the producer got an error, the loop is done
C13_Witness ==
  /\ rpc = "done"
  /\ Len(applied) = 2
  /\ \E p \in Producers : ppc[p] = "broken" /\ pending[p] # <<>>

\* the formats ping_munger documents: an ENR object, the text of an ENR, a
\* 32-byte node id, a node id as 64 hexadecimal digits with or without 0x,
\* an enode URI
MatchesFormat(id) ==
  \/ id.type = "ENR"
  \/ id.type = "bytes" /\ id.len = NodeIdBytes
  \/ id.type = "str" /\ id.head \in {"enode://", "enr:"}
  \/ id.type = "str" /\ id.head \in {"", "0x", "0X"} /\ id.len = NodeIdHexLen /\ id.hex

\* C14: ping_munger gives a one-element payload for an identifier in one of
\* the documented formats and ValueError for every other identifier.
C14_Munger ==
  payload # NoPayload =>
     IF MatchesFormat(identifier)
     THEN payload # ValueError /\ Len(payload) = 1
     ELSE payload = ValueError

\* C15: the consumer loop applies every queued pair as a single-pair update
\* of its own, so two pairs of one call that both differ when applied raise
\* the sequence number by 2, where one synchronous update with the same two
\* pairs raises it by 1; pairs of another producer can be applied in between.
C15_PairByPair ==
  /\ last.by = "run" =>
        /\ Len(last.pairs) = 1
        /\ applied # <<>>
        /\ last.pairs[1] = applied[Len(applied)][2]
  /\ pc = "constructed" =>
        \A p1, p2 \in proposals :
           LET one == UpdatedENR(enr, private_key, <<p1>>)
               two == UpdatedENR(one, private_key, <<p2>>)
               both == UpdatedENR(enr, private_key, <<p1, p2>>)
           IN (one # enr /\ two # one) =>
                 (two.seq = enr.seq + 2 /\ both.seq = enr.seq + 1 /\ both.kv = two.kv)

\* B's pair was applied between A's two pairs and each of the three raised
\* the sequence number
C15_Witness ==
  /\ ctor_kv = EmptyKV
  /\ given["A"] = <<(<<"ip", "ip1">>), (<<"ip", "ip1">>)>>
  /\ applied = <<(<<"A", <<"ip", "ip1">> >>), (<<"B", <<"ip", "ip2">> >>),
                 (<<"A", <<"ip", "ip1">> >>)>>
  /\ enr.seq = base_seq + 3

\* C16: the channel has no buffer: a pair is accepted only in a step in which
\* the consumer loop is at its receive and takes that pair, a producer gets
\* past a pair only in such a step, and so at most one accepted pair is
\* waiting to be applied.
C16_Step ==
  /\ accepted' # accepted =>
        /\ rpc \in {"receive", "waiting"}
        /\ rpc' = "got"
        /\ accepted' = Append(accepted, held')
  /\ \A p \in Producers :
        (ppc[p] # "idle" /\ pending'[p] # pending[p]) =>
           (accepted' = Append(accepted, <<p, Head(pending[p])>>) /\ pending'[p] = Tail(pending[p]))
  /\ Len(accepted') - Len(applied') \in {0, 1}
C16_ZeroCapacity == [][C16_Step]_vars

\* the loop is busy with A's pair while B is parked in send with its own
C16_Witness ==
  /\ rpc = "got"
  /\ held[1] = "A"
  /\ send_tasks = <<"B">>
  /\ ppc["B"] = "parked"
  /\ pending["B"] # <<>>
  /\ Len(accepted) = Len(applied) + 1

\* the pairs run() has applied, in order
AppliedPairs == [i \in 1..Len(applied) |-> applied[i][2]]

\* C17: with the loop running and every task scheduled fairly, every
\* async_update call returns, and the n-th pair a producer was given is
\* eventually its n-th applied pair, the record then holding for that key the
\* value of the latest applied pair naming the key.
C17_Liveness ==
  /\ \A p \in Producers : (ppc[p] # "idle") ~> (ppc[p] = "idle")
  /\ \A p \in Producers : \A n \in 1..MaxQueued :
        (Len(given[p]) >= n) ~>
           /\ Len(PairsOf(applied, p)) >= n
           /\ PairsOf(applied, p)[n] = given[p][n]
           /\ enr.kv[given[p][n][1]] = LastSupplied(AppliedPairs, given[p][n][1])

\* both producers' calls have returned, A's after two pairs, and the record
\* holds the value of the pair applied last
C17_Witness ==
  /\ \A p \in Producers : ppc[p] = "idle" /\ PairsOf(applied, p) = given[p]
  /\ Len(given["A"]) = 2
  /\ Len(given["B"]) = 1
  /\ enr.kv["ip"] = applied[3][2][2]
  /\ enr.kv["ip"] # applied[1][2][2]

\* C18: once constructed, the record the store returns for the manager's
\* identity is the manager's current record.
C18_WriteThrough ==
  pc = "constructed" => GetEnr(node_db, node_id) = enr

\* C20: a record with sequence number n+1 produced by update differs in its
\* key/values from the record with sequence number n it replaced.
C20_BumpChanges ==
  (last.by # "none" /\ enr.seq = last.pre.seq + 1) => enr.kv # last.pre.kv

====
